---- MODULE Spec2Model ----
(***************************************************************************)
(* Model of scripts/convert_pdf.py: the command-line adapter that parses   *)
(* one JSON argument, forwards it to pdf_craft.transform_epub with a fixed *)
(* policy, and reports the outcome as one JSON line plus an exit code.     *)
(*                                                                         *)
(* Text is modelled at the level of JSON tokens: the argument argv[1] and  *)
(* every line written to stdout/stderr is a sequence of tokens, json.loads *)
(* is a recursive-descent parser over tokens and json.dumps renders a      *)
(* Python value back to tokens.  Python values are tagged records.         *)
(***************************************************************************)
EXTENDS Integers, Sequences, FiniteSets, TLC

(***************************************************************************)
(* Bounds of the explored inputs.                                          *)
(***************************************************************************)
\* how many trailing tokens a truncated (malformed) argument may have lost
MaxDrop == 2
\* how many further command-line arguments may follow the JSON argument
MaxExtraArgs == 1

(***************************************************************************)
(* Python values.                                                          *)
(***************************************************************************)
PyNone == [t |-> "NoneType"]
PyStr(s) == [t |-> "str", s |-> s]
PyInt(n) == [t |-> "int", n |-> n]
PyBool(b) == [t |-> "bool", b |-> b]
PyList(items) == [t |-> "list", items |-> items]
\* a dict is its items in insertion order, each [key, val]
PyDict(d) == [t |-> "dict", d |-> d]

\* dict lookup helpers
DictHas(d, k) == \E i \in 1..Len(d) : d[i].key = k
DictGet(d, k) == d[CHOOSE i \in 1..Len(d) : d[i].key = k].val
\* d[k] = v : a repeated key keeps its position and takes the last value
DictSet(d, k, v) ==
    IF DictHas(d, k)
    THEN [i \in 1..Len(d) |-> IF d[i].key = k THEN [key |-> k, val |-> v] ELSE d[i]]
    ELSE Append(d, [key |-> k, val |-> v])

\* Python truth value of an object (the test of `if author`)
Truthy(v) ==
    CASE v.t = "NoneType" -> FALSE
      [] v.t = "str" -> v.s # ""
      [] v.t = "int" -> v.n # 0
      [] v.t = "bool" -> v.b
      [] v.t = "list" -> v.items # << >>
      [] v.t = "dict" -> v.d # << >>

(***************************************************************************)
(* JSON tokens.                                                            *)
(***************************************************************************)
P(c) == [k |-> "punct", v |-> c]
S(s) == [k |-> "string", v |-> s]
N(s) == [k |-> "number", v |-> s]
W(s) == [k |-> "word", v |-> s]

\* the integer literals that occur in the explored inputs
NumStr(n) == IF n = 0 THEN "0" ELSE "7"
NumVal(s) == IF s = "0" THEN 0 ELSE 7

(***************************************************************************)
(* json.dumps: render a Python value as JSON text.                         *)
(***************************************************************************)
RECURSIVE json_dumps(_)
RECURSIVE DumpItems(_, _)
RECURSIVE DumpMembers(_, _)
DumpItems(items, i) ==
    IF i > Len(items) THEN << >>
    ELSE (IF i > 1 THEN <<P(",")>> ELSE << >>)
         \o json_dumps(items[i]) \o DumpItems(items, i + 1)
DumpMembers(d, i) ==
    IF i > Len(d) THEN << >>
    ELSE (IF i > 1 THEN <<P(",")>> ELSE << >>)
         \o <<S(d[i].key), P(":")>> \o json_dumps(d[i].val) \o DumpMembers(d, i + 1)
json_dumps(v) ==
    CASE v.t = "NoneType" -> <<W("null")>>
      [] v.t = "str" -> <<S(v.s)>>
      [] v.t = "int" -> <<N(NumStr(v.n))>>
      [] v.t = "bool" -> <<W(IF v.b THEN "true" ELSE "false")>>
      [] v.t = "list" -> <<P("[")>> \o DumpItems(v.items, 1) \o <<P("]")>>
      [] v.t = "dict" -> <<P("{")>> \o DumpMembers(v.d, 1) \o <<P("}")>>

(***************************************************************************)
(* json.loads: parse JSON text.  A parse result is either                  *)
(*   [ok |-> TRUE, val |-> value, next |-> index of the first unread token]*)
(* or [ok |-> FALSE, msg |-> the decoder's message].                       *)
(***************************************************************************)
Fail(m) == [ok |-> FALSE, msg |-> m]
Done(v, i) == [ok |-> TRUE, val |-> v, next |-> i]
IsPunct(toks, i, c) == i <= Len(toks) /\ toks[i] = P(c)

RECURSIVE ParseValue(_, _)
RECURSIVE ParseElements(_, _, _)
RECURSIVE ParseMembers(_, _, _)
\* the elements of an array, from the token after "[" or after ","
ParseElements(toks, i, acc) ==
    LET r == ParseValue(toks, i) IN
    IF ~r.ok THEN r
    ELSE IF IsPunct(toks, r.next, "]") THEN Done(PyList(Append(acc, r.val)), r.next + 1)
    ELSE IF IsPunct(toks, r.next, ",") THEN ParseElements(toks, r.next + 1, Append(acc, r.val))
    ELSE Fail("Expecting ',' delimiter")
\* the members of an object, from the token after "{" or after ","
ParseMembers(toks, i, acc) ==
    IF ~(i <= Len(toks) /\ toks[i].k = "string")
    THEN Fail("Expecting property name enclosed in double quotes")
    ELSE IF ~IsPunct(toks, i + 1, ":") THEN Fail("Expecting ':' delimiter")
    ELSE LET r == ParseValue(toks, i + 2) IN
         IF ~r.ok THEN r
         ELSE LET d == DictSet(acc, toks[i].v, r.val) IN
              IF IsPunct(toks, r.next, "}") THEN Done(PyDict(d), r.next + 1)
              ELSE IF IsPunct(toks, r.next, ",") THEN ParseMembers(toks, r.next + 1, d)
              ELSE Fail("Expecting ',' delimiter")
ParseValue(toks, i) ==
    IF i > Len(toks) THEN Fail("Expecting value")
    ELSE LET tok == toks[i] IN
         CASE tok.k = "string" -> Done(PyStr(tok.v), i + 1)
           [] tok.k = "number" -> Done(PyInt(NumVal(tok.v)), i + 1)
           [] tok.k = "word" ->
                (CASE tok.v = "null" -> Done(PyNone, i + 1)
                   [] tok.v = "true" -> Done(PyBool(TRUE), i + 1)
                   [] tok.v = "false" -> Done(PyBool(FALSE), i + 1)
                   [] OTHER -> Fail("Expecting value"))
           [] tok.k = "punct" ->
                (CASE tok.v = "[" ->
                        IF IsPunct(toks, i + 1, "]") THEN Done(PyList(<< >>), i + 2)
                        ELSE ParseElements(toks, i + 1, << >>)
                   [] tok.v = "{" ->
                        IF IsPunct(toks, i + 1, "}") THEN Done(PyDict(<< >>), i + 2)
                        ELSE ParseMembers(toks, i + 1, << >>)
                   [] OTHER -> Fail("Expecting value"))
\* the whole text must be one value; anything after it is "Extra data"
json_loads(toks) ==
    LET r == ParseValue(toks, 1) IN
    IF ~r.ok THEN r
    ELSE IF r.next <= Len(toks) THEN Fail("Extra data")
    ELSE r

(***************************************************************************)
(* Exceptions.  An exception is [cls, arg, code]: its class, the single    *)
(* constructor argument its message is built from, and (for SystemExit)    *)
(* the exit status it carries.                                             *)
(***************************************************************************)
NoExc == [cls |-> "none", arg |-> "", code |-> 0]
Exc(cls, arg) == [cls |-> cls, arg |-> arg, code |-> 1]
\* sys.exit(n) raises SystemExit(n)
SystemExit(n, text) == [cls |-> "SystemExit", arg |-> text, code |-> n]

\* the classes that derive from BaseException but not from Exception
BaseOnlyClasses == {"SystemExit", "KeyboardInterrupt", "GeneratorExit"}

\* repr() of the keys main() subscripts with
Repr(s) == IF s = "pdf_path" THEN "'pdf_path'" ELSE "'epub_path'"
\* str(e): KeyError shows the repr of the missing key, every other class
\* its argument (the position suffix of JSONDecodeError is left out)
str(e) == IF e.cls = "KeyError" THEN Repr(e.arg) ELSE e.arg

\* CatchesAnything: a bare `except:` in place of `except Exception`
CatchesAnything(e) == TRUE
\* `except Exception as e` : isinstance(e, Exception)
Catches(e) == e.cls \notin BaseOnlyClasses

(***************************************************************************)
(* The statements of main() that are expressions over the request.         *)
(***************************************************************************)
Raise(e) == [ok |-> FALSE, exc |-> e]
Value(v) == [ok |-> TRUE, val |-> v]

\* SubscriptOrNone: args.get(key) in place of args[key]
SubscriptOrNone(obj, key) ==
    IF obj.t # "dict" THEN Raise(Exc("AttributeError", "object has no attribute 'get'"))
    ELSE IF DictHas(obj.d, key) THEN Value(DictGet(obj.d, key))
    ELSE Value(PyNone)
\* obj[key] with a str key
Subscript(obj, key) ==
    CASE obj.t = "dict" ->
            IF DictHas(obj.d, key) THEN Value(DictGet(obj.d, key))
            ELSE Raise(Exc("KeyError", key))
      [] obj.t = "list" ->
            Raise(Exc("TypeError", "list indices must be integers or slices, not str"))
      [] obj.t = "str" ->
            Raise(Exc("TypeError", "string indices must be integers, not 'str'"))
      [] obj.t = "int" -> Raise(Exc("TypeError", "'int' object is not subscriptable"))
      [] obj.t = "bool" -> Raise(Exc("TypeError", "'bool' object is not subscriptable"))
      [] obj.t = "NoneType" ->
            Raise(Exc("TypeError", "'NoneType' object is not subscriptable"))

\* dict.get(key, default)
Get(obj, key, default) == IF DictHas(obj.d, key) THEN DictGet(obj.d, key) ELSE default

\* TitleOrDefault: args.get("title") or "Untitled"
TitleOrDefault(obj) ==
    IF DictHas(obj.d, "title") /\ Truthy(DictGet(obj.d, "title"))
    THEN DictGet(obj.d, "title") ELSE PyStr("Untitled")
\* title = args.get("title", "Untitled")
TitleOf(obj) == Get(obj, "title", PyStr("Untitled"))

\* author = args.get("author", "")
AuthorOf(obj) == Get(obj, "author", PyStr(""))

\* AuthorsAlways: authors = [author]
AuthorsAlways(a) == PyList(<<a>>)
\* authors = [author] if author else []
AuthorsOf(a) == IF Truthy(a) THEN PyList(<<a>>) ELSE PyList(<< >>)

BookMeta(title_, authors_) == [title |-> title_, authors |-> authors_]

\* the two response objects, keys in the order the source writes them
SuccessResponse == PyDict(<<[key |-> "success", val |-> PyBool(TRUE)]>>)
FailureResponse(message) ==
    PyDict(<<[key |-> "success", val |-> PyBool(FALSE)],
             [key |-> "error", val |-> PyStr(message)]>>)

\* what the interpreter writes for an exception nothing caught
Traceback == <<W("Traceback")>>

(***************************************************************************)
(* The explored requests.                                                  *)
(***************************************************************************)
Absent == [t |-> "absent"]
Unbound == [t |-> "unbound"]

PdfChoices == {Absent, PyStr("book.pdf")}
EpubChoices == {Absent, PyStr("book.epub")}
TitleChoices == {Absent, PyStr(""), PyStr("Moby Dick"), PyNone}
AuthorChoices == {Absent, PyStr(""), PyStr("Jane Doe"), PyNone, PyInt(0),
                  PyList(<<PyStr("A"), PyStr("B")>>)}
\* keys named like the policy options
OcrSizeChoices == {Absent, PyStr("large")}
CoverChoices == {Absent, PyBool(FALSE)}

Member(k, choice) == IF choice = Absent THEN << >> ELSE <<[key |-> k, val |-> choice]>>
RequestObjects ==
    { PyDict(Member("pdf_path", p) \o Member("epub_path", e) \o Member("title", ti)
             \o Member("author", au) \o Member("ocr_size", oc)
             \o Member("includes_cover", co)) :
        p \in PdfChoices, e \in EpubChoices, ti \in TitleChoices, au \in AuthorChoices,
        oc \in OcrSizeChoices, co \in CoverChoices }
\* valid JSON that is not an object
NonObjects == {PyNone, PyBool(TRUE), PyInt(7), PyStr("pdf_path"),
               PyList(<<PyStr("pdf_path"), PyStr("epub_path")>>)}

\* a request is a value, the number of tokens cut off the end of its text
\* and whether a stray closing brace follows the text
Requests ==
    { [given |-> TRUE, value |-> v, drop |-> dr, stray |-> st, extra |-> n] :
        v \in RequestObjects \cup NonObjects, dr \in 0..MaxDrop, st \in BOOLEAN,
        n \in 0..MaxExtraArgs }
NoRequest == [given |-> FALSE, value |-> PyNone, drop |-> 0, stray |-> FALSE, extra |-> 0]

TextOf(r) ==
    LET full == json_dumps(r.value)
        keep == IF Len(full) > r.drop THEN Len(full) - r.drop ELSE 0
    IN SubSeq(full, 1, keep) \o (IF r.stray THEN <<P("}")>> ELSE << >>)
ArgvOf(r) ==
    IF ~r.given THEN <<"convert_pdf.py">>
    ELSE <<"convert_pdf.py", TextOf(r)>> \o [i \in 1..r.extra |-> "--extra"]

\* what transform_epub may raise
LibraryErrors == {Exc("FileNotFoundError", "[Errno 2] No such file or directory: 'book.pdf'"),
                  Exc("RuntimeError", "")}

(***************************************************************************)
(* State.                                                                  *)
(***************************************************************************)
VARIABLES
    request,    \* the input this run was started with
    argv,       \* sys.argv
    pc,         \* position in main()
    args, pdf_path, epub_path, title, author, authors,   \* locals of main()
    calls,      \* the keyword arguments of each transform_epub call made
    lib,        \* "idle", "running", "returned" or "raised"
    exc,        \* the exception being raised, NoExc when none
    stdout, stderr,   \* the lines written so far
    exit_code   \* << >> while running, <<n>> once the process has exited

locals == <<args, pdf_path, epub_path, title, author, authors>>
streams == <<stdout, stderr>>
vars == <<request, argv, pc, locals, calls, lib, exc, streams, exit_code>>

Init ==
    /\ request = NoRequest
    /\ argv = << >>
    /\ pc = "spawn"
    /\ args = Unbound /\ pdf_path = Unbound /\ epub_path = Unbound
    /\ title = Unbound /\ author = Unbound /\ authors = Unbound
    /\ calls = << >>
    /\ lib = "idle"
    /\ exc = NoExc
    /\ stdout = << >> /\ stderr = << >>
    /\ exit_code = << >>

\* the worker spawns the script with its command line; main() is entered
Spawn ==
    /\ pc = "spawn"
    /\ request' \in Requests \cup {NoRequest}
    /\ request'.stray => request'.drop = 0
    /\ argv' = ArgvOf(request')
    /\ pc' = "main"
    /\ UNCHANGED <<locals, calls, lib, exc, streams, exit_code>>

\* print(json.dumps(obj), file=stream)
print(stream, obj) == Append(stream, json_dumps(obj))

\* NoArgumentsToStderr: the response printed with file=sys.stderr
NoArgumentsToStderr ==
    /\ pc = "main" /\ Len(argv) < 2
    /\ stderr' = print(stderr, FailureResponse("No arguments provided"))
    /\ exit_code' = <<1>>
    /\ pc' = "exited"
    /\ UNCHANGED <<request, argv, locals, calls, lib, exc, stdout>>
\* if len(sys.argv) < 2: print(...); sys.exit(1)
NoArguments ==
    /\ pc = "main" /\ Len(argv) < 2
    /\ stdout' = print(stdout, FailureResponse("No arguments provided"))
    /\ exit_code' = <<1>>
    /\ pc' = "exited"
    /\ UNCHANGED <<request, argv, locals, calls, lib, exc, stderr>>

\* args = json.loads(sys.argv[1])
ParseArgument ==
    /\ pc = "main" /\ ~(Len(argv) < 2)
    /\ LET r == json_loads(argv[2]) IN
       IF r.ok
       THEN /\ args' = r.val /\ pc' = "fields" /\ exc' = exc
       ELSE /\ args' = args /\ pc' = "except" /\ exc' = Exc("JSONDecodeError", r.msg)
    /\ UNCHANGED <<request, argv, pdf_path, epub_path, title, author, authors,
                   calls, lib, streams, exit_code>>

\* pdf_path = args["pdf_path"] ... authors = [author] if author else []
ReadFields ==
    /\ pc = "fields"
    /\ LET p == Subscript(args, "pdf_path") IN
       IF ~p.ok
       THEN /\ exc' = p.exc /\ pc' = "except"
            /\ UNCHANGED <<pdf_path, epub_path, title, author, authors>>
       ELSE LET e == Subscript(args, "epub_path") IN
            IF ~e.ok
            THEN /\ exc' = e.exc /\ pc' = "except"
                 /\ pdf_path' = p.val
                 /\ UNCHANGED <<epub_path, title, author, authors>>
            ELSE /\ pdf_path' = p.val
                 /\ epub_path' = e.val
                 /\ title' = TitleOf(args)
                 /\ author' = AuthorOf(args)
                 /\ authors' = AuthorsOf(AuthorOf(args))
                 /\ pc' = "call" /\ exc' = exc
    /\ UNCHANGED <<request, argv, args, calls, lib, streams, exit_code>>

\* PolicyFromRequest: the options read from the request when it names them
PolicyFromRequest ==
    [ocr_size |-> Get(args, "ocr_size", PyStr("small")),
     includes_cover |-> Get(args, "includes_cover", PyBool(TRUE)),
     includes_footnotes |-> PyBool(TRUE),
     ignore_pdf_errors |-> PyBool(TRUE),
     ignore_ocr_errors |-> PyBool(TRUE)]
\* the options of the transform_epub call
Policy ==
    [ocr_size |-> PyStr("small"),
     includes_cover |-> PyBool(TRUE),
     includes_footnotes |-> PyBool(TRUE),
     ignore_pdf_errors |-> PyBool(TRUE),
     ignore_ocr_errors |-> PyBool(TRUE)]

\* transform_epub(pdf_path=..., epub_path=..., book_meta=BookMeta(...), ...) is entered
CallTransform ==
    /\ pc = "call"
    /\ calls' = Append(calls, [pdf_path |-> pdf_path, epub_path |-> epub_path,
                               book_meta |-> BookMeta(title, authors),
                               policy |-> Policy])
    /\ lib' = "running"
    /\ pc' = "in_call"
    /\ UNCHANGED <<request, argv, locals, exc, streams, exit_code>>

\* transform_epub returns
TransformReturns ==
    /\ pc = "in_call"
    /\ lib' = "returned"
    /\ pc' = "print"
    /\ UNCHANGED <<request, argv, locals, calls, exc, streams, exit_code>>

\* transform_epub raises
TransformRaises ==
    /\ pc = "in_call"
    /\ \E e \in LibraryErrors : exc' = e
    /\ lib' = "raised"
    /\ pc' = "except"
    /\ UNCHANGED <<request, argv, locals, calls, streams, exit_code>>

\* print(json.dumps({"success": True})): the line is written, or the write
\* to standard output fails (closed or broken pipe) and print raises an
\* OSError with nothing written
PrintSuccess ==
    /\ pc = "print"
    /\ \/ /\ stdout' = print(stdout, SuccessResponse)
          /\ pc' = "exit" /\ exc' = exc
       \/ /\ stdout' = stdout
          /\ pc' = "except" /\ exc' = Exc("BrokenPipeError", "[Errno 32] Broken pipe")
    /\ UNCHANGED <<request, argv, locals, calls, lib, stderr, exit_code>>

\* sys.exit(0), inside the try block
ExitSuccess ==
    /\ pc = "exit"
    /\ exc' = SystemExit(0, "0")
    /\ pc' = "except"
    /\ UNCHANGED <<request, argv, locals, calls, lib, streams, exit_code>>

\* HandlerRetries: the handler calls the routine once more before giving up
HandlerRetries ==
    /\ pc = "except" /\ Catches(exc)
    /\ IF lib = "raised" /\ Len(calls) < 2
       THEN /\ pc' = "call" /\ exc' = NoExc
            /\ UNCHANGED <<stderr, exit_code>>
       ELSE /\ stderr' = print(stderr, FailureResponse(str(exc)))
            /\ exit_code' = <<1>>
            /\ pc' = "exited" /\ exc' = exc
    /\ UNCHANGED <<request, argv, locals, calls, lib, stdout>>
\* HandlerToStdout: the handler's print without file=sys.stderr
HandlerToStdout ==
    /\ pc = "except" /\ Catches(exc)
    /\ stdout' = print(stdout, FailureResponse(str(exc)))
    /\ exit_code' = <<1>>
    /\ pc' = "exited"
    /\ UNCHANGED <<request, argv, locals, calls, lib, exc, stderr>>
\* except Exception as e: print(..., file=sys.stderr); sys.exit(1)
ExceptHandler ==
    /\ pc = "except" /\ Catches(exc)
    /\ stderr' = print(stderr, FailureResponse(str(exc)))
    /\ exit_code' = <<1>>
    /\ pc' = "exited"
    /\ UNCHANGED <<request, argv, locals, calls, lib, exc, stdout>>

\* the except clause does not match: the exception leaves main(); SystemExit
\* ends the process with its status, anything else with a traceback and 1
Propagate ==
    /\ pc = "except" /\ ~Catches(exc)
    /\ IF exc.cls = "SystemExit"
       THEN /\ exit_code' = <<exc.code>> /\ stderr' = stderr
       ELSE /\ exit_code' = <<1>> /\ stderr' = Append(stderr, Traceback)
    /\ pc' = "exited"
    /\ UNCHANGED <<request, argv, locals, calls, lib, exc, stdout>>

\* the steps main() takes once the transform_epub call is over
AfterCall ==
    \/ PrintSuccess
    \/ ExitSuccess
    \/ ExceptHandler
    \/ Propagate

Next ==
    \/ Spawn
    \/ NoArguments
    \/ ParseArgument
    \/ ReadFields
    \/ CallTransform
    \/ TransformReturns
    \/ TransformRaises
    \/ PrintSuccess
    \/ ExitSuccess
    \/ ExceptHandler
    \/ Propagate

Spec == Init /\ [][Next]_vars

\* the interpreter is single-threaded and main() has no suspension point:
\* once control is back from transform_epub, main() runs to its end
FairSpec == Spec /\ WF_vars(AfterCall)

(***************************************************************************)
(* Vocabulary of the properties: the request as it was given, and the      *)
(* response lines written out token by token.                              *)
(***************************************************************************)
WellFormed(r) == r.given /\ r.drop = 0 /\ ~r.stray
HasKey(r, k) == r.value.t = "dict" /\ \E i \in 1..Len(r.value.d) : r.value.d[i].key = k
KeyValue(r, k) == r.value.d[CHOOSE i \in 1..Len(r.value.d) : r.value.d[i].key = k].val
Valid(r) == WellFormed(r) /\ HasKey(r, "pdf_path") /\ HasKey(r, "epub_path")

SuccessLine == <<P("{"), S("success"), P(":"), W("true"), P("}")>>
FailureLine(m) ==
    <<P("{"), S("success"), P(":"), W("false"), P(","), S("error"), P(":"), S(m), P("}")>>
NoArgumentsLine == FailureLine("No arguments provided")
IsFailureLine(line) ==
    /\ Len(line) = Len(NoArgumentsLine)
    /\ line[Len(line) - 1].k = "string"
    /\ line = FailureLine(line[Len(line) - 1].v)
ErrorOf(line) == line[Len(line) - 1].v

Exited == pc = "exited"

\* Sanity: the argument decodes exactly when the request was well formed,
\* and then to the value it was written from.
ParserAgrees ==
    (request.given /\ pc \notin {"spawn", "main"}) =>
        /\ (args # Unbound) <=> WellFormed(request)
        /\ WellFormed(request) => args = request.value
        /\ ~WellFormed(request) => exc.cls = "JSONDecodeError"

\* C1: whenever the argument is valid JSON with pdf_path and epub_path and
\* transform_epub has returned normally, the finished run has written exactly
\* {"success": true} to stdout, nothing to stderr, and exited with 0.
C1_ReturnGivesSuccess ==
    (Exited /\ Valid(request) /\ lib = "returned") =>
        /\ stdout = <<SuccessLine>>
        /\ stderr = << >>
        /\ exit_code = <<0>>

OutcomeSuccess == stdout = <<SuccessLine>> /\ stderr = << >> /\ exit_code = <<0>>
OutcomeNoArguments == stdout = <<NoArgumentsLine>> /\ stderr = << >> /\ exit_code = <<1>>
OutcomeFailure ==
    /\ stdout = << >> /\ exit_code = <<1>>
    /\ Len(stderr) = 1 /\ IsFailureLine(stderr[1])

C5_CallOnlyAfterValidation ==
    /\ calls # << >> =>
          /\ args.t = "dict"
          /\ pdf_path # Unbound /\ epub_path # Unbound
          /\ Valid(request)
    /\ (request.given /\ ~Valid(request)) =>
          /\ calls = << >> /\ lib = "idle"
          /\ Exited => /\ exit_code = <<1>>
                       /\ Len(stderr) = 1 /\ IsFailureLine(stderr[1])
C5_Witness ==
    /\ Exited /\ WellFormed(request)
    /\ HasKey(request, "pdf_path") /\ ~HasKey(request, "epub_path")
    /\ calls = << >> /\ stderr # << >>

EmptyValues == {PyStr(""), PyNone, PyList(<< >>), PyDict(<< >>)}

\* C6: in every call made, the authors list is empty when author is omitted
\* or the empty string, is [author] when author is a non-empty string, never
\* has more than one element and never holds an empty value.
C6_Authors ==
    calls # << >> =>
        LET given == calls[1].book_meta.authors IN
        /\ given.t = "list"
        /\ Len(given.items) <= 1
        /\ \A i \in 1..Len(given.items) : given.items[i] \notin EmptyValues
        /\ ~HasKey(request, "author") => given.items = << >>
        /\ HasKey(request, "author") =>
              LET a == KeyValue(request, "author") IN
              /\ a = PyStr("") => given.items = << >>
              /\ (a.t = "str" /\ a # PyStr("")) => given.items = <<a>>
C6_Witness ==
    /\ calls # << >>
    /\ HasKey(request, "author") /\ KeyValue(request, "author") = PyStr("Jane Doe")
    /\ calls[1].book_meta.authors = PyList(<<PyStr("Jane Doe")>>)

\* C7: in every call made, the title is "Untitled" when the request has no
\* title key and is the request's title value, unchanged, when it has one.
C7_Title ==
    calls # << >> =>
        /\ ~HasKey(request, "title") => calls[1].book_meta.title = PyStr("Untitled")
        /\ HasKey(request, "title") => calls[1].book_meta.title = KeyValue(request, "title")
C7_Witness ==
    /\ calls # << >>
    /\ HasKey(request, "title") /\ KeyValue(request, "title") = PyStr("")
    /\ calls[1].book_meta.title = PyStr("")

\* C8: every call made carries the same options, whatever the request holds
\* (keys named like the options included): ocr_size "small", cover,
\* footnotes and both error tolerances on; pdf_path and epub_path are the
\* request's values.
C8_FixedPolicy ==
    calls # << >> =>
        /\ calls[1].policy.ocr_size = PyStr("small")
        /\ calls[1].policy.includes_cover = PyBool(TRUE)
        /\ calls[1].policy.includes_footnotes = PyBool(TRUE)
        /\ calls[1].policy.ignore_pdf_errors = PyBool(TRUE)
        /\ calls[1].policy.ignore_ocr_errors = PyBool(TRUE)
        /\ calls[1].pdf_path = KeyValue(request, "pdf_path")
        /\ calls[1].epub_path = KeyValue(request, "epub_path")
C8_Witness ==
    /\ calls # << >>
    /\ HasKey(request, "ocr_size") /\ KeyValue(request, "ocr_size") = PyStr("large")
    /\ HasKey(request, "includes_cover")

\* C9: transform_epub is entered at most once per run; once it has raised it
\* is not entered again and the only step that follows writes the failure
\* response and exits with 1; and once the call has returned or raised the
\* run terminates.
C9_OneCallNoRetry ==
    /\ [](Len(calls) <= 1)
    /\ [][lib = "raised" =>
            /\ calls' = calls /\ lib' = "raised"
            /\ pc' = "exited" /\ exit_code' = <<1>>
            /\ stdout' = stdout
            /\ stderr' = <<FailureLine(exc.arg)>>]_vars
    /\ (lib \in {"returned", "raised"}) ~> Exited
C9_Witness == Exited /\ lib = "raised" /\ Len(calls) = 1 /\ stderr # << >>

SuccessReported == exit_code = <<0>> \/ \E i \in 1..Len(stdout) : stdout[i] = SuccessLine
FailureReported ==
    \/ exit_code = <<1>>
    \/ \E i \in 1..Len(stdout) : IsFailureLine(stdout[i])
    \/ \E i \in 1..Len(stderr) : IsFailureLine(stderr[i])

\* C10: the verdict reflects the call in both directions: the success
\* response is written, and the run exits with 0, only after transform_epub
\* has returned normally; a failure response is written, and the run exits
\* with 1, only if transform_epub was never entered or has raised.
C10_VerdictReflectsCall ==
    /\ SuccessReported => lib = "returned"
    /\ FailureReported => lib \in {"idle", "raised"}

====
